---- MODULE Spec2Model ----
(***************************************************************************)
(* Model of libsignal-service/src/configuration.rs: the deployment         *)
(* selector SignalServers (FromStr / ToString / From), the configuration   *)
(* snapshot ServiceConfiguration (base_url, credentials_validator) and the *)
(* account identity ServiceCredentials (e164, login, authorization).       *)
(*                                                                         *)
(* All operations are synchronous functions of their arguments.  The state *)
(* of the model is what a caller observes: the call that ended last (ret)  *)
(* and, for each deployment, the distinct snapshots handed out so far      *)
(* (produced) and the number of From calls made (calls).  A Rust panic     *)
(* unwinds the calling thread: after it no further call is made.           *)
(*                                                                         *)
(* Text that the code only compares or concatenates is a TLA+ string; text *)
(* that the code parses (URLs, base64) is a sequence of one-character      *)
(* strings so that the parsers can be modelled symbol by symbol.           *)
(***************************************************************************)
EXTENDS Integers, Sequences, FiniteSets, TLC

VARIABLES ret, produced, calls

vars == <<ret, produced, calls>>

(***************************************************************************)
(* Bounds of the model.                                                    *)
(***************************************************************************)
\* device ids 1..MaxDeviceId are tried (next to an absent device id)
MaxDeviceId == 2
\* Endpoint::Cdn(n) is tried for n in 0..MaxCdnId
MaxCdnId == 7
\* trust roots are tried with 0..MaxTruncate trailing symbols cut off
MaxTruncate == 3
\* calls counts the From calls of each deployment up to MaxCalls
MaxCalls == 2

(***************************************************************************)
(* Option<T>, Result<T, E> and the two ways a call can end.                *)
(***************************************************************************)
None == [tag |-> "None"]

Some(v) == [tag |-> "Some", val |-> v]

Ok(v) == [tag |-> "Ok", val |-> v]

Err(e) == [tag |-> "Err", err |-> e]

Return(v) == [tag |-> "Return", val |-> v]

Panic(m) == [tag |-> "Panic", msg |-> m]

(***************************************************************************)
(* Display of an unsigned integer (format!("{}", n)): decimal, no sign, no *)
(* leading zeros.                                                          *)
(***************************************************************************)
Digits == <<"0", "1", "2", "3", "4", "5", "6", "7", "8", "9">>

RECURSIVE DisplayUInt(_)
DisplayUInt(n) ==
  IF n < 10 THEN Digits[n + 1]
  ELSE DisplayUInt(n \div 10) \o Digits[(n % 10) + 1]

RECURSIVE Repeat(_, _)
Repeat(s, k) == IF k = 0 THEN "" ELSE s \o Repeat(s, k - 1)

(***************************************************************************)
(* uuid::Uuid is 16 bytes; its to_string() is the hyphenated lower-case    *)
(* hexadecimal form 8-4-4-4-12.                                            *)
(***************************************************************************)
HexDigits ==
  <<"0", "1", "2", "3", "4", "5", "6", "7", "8", "9", "a", "b", "c", "d", "e", "f">>

HexByte(b) == HexDigits[(b \div 16) + 1] \o HexDigits[(b % 16) + 1]

RECURSIVE HexBytes(_, _, _)
HexBytes(bytes, from, to) ==
  IF from > to THEN "" ELSE HexByte(bytes[from]) \o HexBytes(bytes, from + 1, to)

UuidToString(u) ==
  HexBytes(u, 1, 4) \o "-" \o HexBytes(u, 5, 6) \o "-" \o HexBytes(u, 7, 8)
    \o "-" \o HexBytes(u, 9, 10) \o "-" \o HexBytes(u, 11, 16)

(***************************************************************************)
(* push_service::DEFAULT_DEVICE_ID, the device id of the primary device.   *)
(***************************************************************************)
DEFAULT_DEVICE_ID == 1

(***************************************************************************)
(* envelope::CIPHER_KEY_SIZE and envelope::MAC_KEY_SIZE size the signaling *)
(* key, a byte array of CIPHER_KEY_SIZE + MAC_KEY_SIZE bytes.              *)
(***************************************************************************)
CIPHER_KEY_SIZE == 32

MAC_KEY_SIZE == 20

SignalingKeyLen == CIPHER_KEY_SIZE + MAC_KEY_SIZE

(***************************************************************************)
(* ServiceCredentials.  phonenumber holds the country code, the national   *)
(* number and the count of leading zeros of the national number, which is  *)
(* what the E.164 form is made of.                                         *)
(***************************************************************************)
Uuids == { <<85, 14, 132, 0, 226, 155, 65, 212, 167, 22, 68, 102, 85, 68, 0, 10>> }

PhoneNumbers ==
  { [code |-> 1, zeros |-> 0, national |-> 5551234],
    [code |-> 39, zeros |-> 1, national |-> 61234567] }

Passwords == {"hunter2"}

SignalingKeys == { [i \in 1..SignalingKeyLen |-> 7] }

DeviceIds == 1..MaxDeviceId

OptionOf(S) == {None} \cup {Some(v) : v \in S}

ServiceCredentials ==
  [uuid : OptionOf(Uuids),
   phonenumber : PhoneNumbers,
   password : OptionOf(Passwords),
   signaling_key : OptionOf(SignalingKeys),
   device_id : OptionOf(DeviceIds)]

\* ServiceCredentials::e164
e164(self) ==
  "+" \o DisplayUInt(self.phonenumber.code)
      \o Repeat("0", self.phonenumber.zeros)
      \o DisplayUInt(self.phonenumber.national)

\* login with the phone number as base identifier even when a uuid is present
login_phoneBase(self) ==
  LET identifier == e164(self)
  IN  IF self.device_id = None \/ self.device_id = Some(DEFAULT_DEVICE_ID)
      THEN identifier
      ELSE identifier \o "." \o DisplayUInt(self.device_id.val)

\* login without the primary-device case: every present device id is appended
login_suffixAlways(self) ==
  LET identifier ==
        IF self.uuid.tag = "Some" THEN UuidToString(self.uuid.val)
        ELSE e164(self)
  IN  IF self.device_id = None
      THEN identifier
      ELSE identifier \o "." \o DisplayUInt(self.device_id.val)

\* ServiceCredentials::login
login(self) ==
  LET identifier ==
        IF self.uuid.tag = "Some" THEN UuidToString(self.uuid.val)
        ELSE e164(self)
  IN  IF self.device_id = None \/ self.device_id = Some(DEFAULT_DEVICE_ID)
      THEN identifier
      ELSE identifier \o "." \o DisplayUInt(self.device_id.val)

\* authorization with the phone number as username
authorization_e164(self) ==
  IF self.password.tag = "Some"
  THEN Some([username |-> e164(self), password |-> self.password.val])
  ELSE None

\* ServiceCredentials::authorization
authorization(self) ==
  IF self.password.tag = "Some"
  THEN Some([username |-> login(self), password |-> self.password.val])
  ELSE None

(***************************************************************************)
(* str::parse::<Url>() (crate url) on an absolute URL of a special scheme: *)
(* scheme, "://", a non-empty host, and a path that is "/" when the text   *)
(* has none.  A text without a scheme or without a host is an error.       *)
(***************************************************************************)
SchemeChars ==
  {"a", "b", "c", "d", "e", "f", "g", "h", "i", "j", "k", "l", "m", "n", "o",
   "p", "q", "r", "s", "t", "u", "v", "w", "x", "y", "z"}

\* index of the first occurrence of c in s at or after from; Len(s) + 1 if none
IndexOf(s, c, from) ==
  LET at == {i \in from..Len(s) : s[i] = c}
  IN  IF at = {} THEN Len(s) + 1
      ELSE CHOOSE i \in at : \A j \in at : i <= j

UrlParse(s) ==
  LET colon == IndexOf(s, ":", 1)
      scheme == SubSeq(s, 1, colon - 1)
      hostStart == colon + 3
      slash == IndexOf(s, "/", hostStart)
      host == SubSeq(s, hostStart, slash - 1)
      path == SubSeq(s, slash, Len(s))
  IN  IF colon > Len(s) \/ scheme = <<>>
         \/ \E i \in 1..Len(scheme) : scheme[i] \notin SchemeChars
      THEN Err("RelativeUrlWithoutBase")
      ELSE IF SubSeq(s, colon + 1, colon + 2) # <<"/", "/">> \/ host = <<>>
      THEN Err("EmptyHost")
      ELSE Ok([scheme |-> scheme, host |-> host,
               path |-> IF path = <<>> THEN <<"/">> ELSE path])

(***************************************************************************)
(* base64::decode (crate base64, standard alphabet).  Padding is accepted  *)
(* but not required; a symbol outside the alphabet, a misplaced "=", a     *)
(* length of 1 modulo 4 and non-zero trailing bits are errors.             *)
(***************************************************************************)
Alphabet ==
  <<"A", "B", "C", "D", "E", "F", "G", "H", "I", "J", "K", "L", "M", "N", "O", "P",
    "Q", "R", "S", "T", "U", "V", "W", "X", "Y", "Z", "a", "b", "c", "d", "e", "f",
    "g", "h", "i", "j", "k", "l", "m", "n", "o", "p", "q", "r", "s", "t", "u", "v",
    "w", "x", "y", "z", "0", "1", "2", "3", "4", "5", "6", "7", "8", "9", "+", "/">>

PAD_BYTE == "="

InAlphabet(c) == \E i \in 1..64 : Alphabet[i] = c

\* the 6-bit value of a symbol of the alphabet
Morsel(c) == (CHOOSE i \in 1..64 : Alphabet[i] = c) - 1

\* bytes of the complete 4-symbol groups of s: group g (from 0) gives the
\* bytes 3g+1..3g+3 out of the symbols 4g+1..4g+4
DecodeQuads(s) ==
  [k \in 1..(3 * (Len(s) \div 4)) |->
     LET g == (k - 1) \div 3
         a == Morsel(s[4 * g + 1])
         b == Morsel(s[4 * g + 2])
         c == Morsel(s[4 * g + 3])
         d == Morsel(s[4 * g + 4])
     IN  CASE (k - 1) % 3 = 0 -> a * 4 + b \div 16
           [] (k - 1) % 3 = 1 -> (b % 16) * 16 + c \div 4
           [] (k - 1) % 3 = 2 -> (c % 4) * 64 + d]

Base64Decode(s) ==
  LET n == Len(s)
      pad == IndexOf(s, PAD_BYTE, 1)
      data == SubSeq(s, 1, pad - 1)
      m == Len(data)
      full == m - (m % 4)
      bad == {i \in 1..n :
                \/ i < pad /\ ~InAlphabet(s[i])
                \/ i >= pad /\ s[i] # PAD_BYTE
                \/ i >= pad /\ (i - 1) % 4 < 2}
  IN  IF n % 4 = 1
      THEN IF s[n] # PAD_BYTE /\ ~InAlphabet(s[n])
           THEN Err("InvalidByte") ELSE Err("InvalidLength")
      ELSE IF bad # {} THEN Err("InvalidByte")
      ELSE IF m % 4 = 2
      THEN LET a == Morsel(data[full + 1])
               b == Morsel(data[full + 2])
           IN  IF b % 16 # 0 THEN Err("InvalidLastSymbol")
               ELSE Ok(DecodeQuads(data) \o <<a * 4 + b \div 16>>)
      ELSE IF m % 4 = 3
      THEN LET a == Morsel(data[full + 1])
               b == Morsel(data[full + 2])
               c == Morsel(data[full + 3])
           IN  IF c % 4 # 0 THEN Err("InvalidLastSymbol")
               ELSE Ok(DecodeQuads(data)
                         \o <<a * 4 + b \div 16, (b % 16) * 16 + c \div 4>>)
      ELSE Ok(DecodeQuads(data))

(***************************************************************************)
(* libsignal_protocol::PublicKey::deserialize: one key-type byte (0x05,    *)
(* Curve25519) followed by at least 32 key bytes, of which 32 are kept.    *)
(***************************************************************************)
DJB_TYPE == 5

CURVE25519_KEY_LENGTH == 32

PublicKeyDeserialize(value) ==
  IF value = <<>> THEN Err("NoKeyTypeIdentifier")
  ELSE IF value[1] # DJB_TYPE THEN Err("BadKeyType")
  ELSE IF Len(value) - 1 < CURVE25519_KEY_LENGTH THEN Err("BadKeyLength")
  ELSE Ok([key_type |-> "Djb", key |-> SubSeq(value, 2, 1 + CURVE25519_KEY_LENGTH)])

(***************************************************************************)
(* bincode::deserialize::<zkgroup::ServerPublicParams>: the parameters are *)
(* a fixed-size blob of SERVER_PUBLIC_PARAMS_LEN bytes, kept as opaque     *)
(* data; an input that is too short is an error.                           *)
(***************************************************************************)
SERVER_PUBLIC_PARAMS_LEN == 161

BincodeDeserialize(bytes) ==
  IF Len(bytes) < SERVER_PUBLIC_PARAMS_LEN THEN Err("UnexpectedEof")
  ELSE Ok([blob |-> SubSeq(bytes, 1, SERVER_PUBLIC_PARAMS_LEN)])

\* Result::unwrap
IsOk(r) == r.tag = "Ok"

(***************************************************************************)
(* The literals embedded in From<&SignalServers>.                          *)
(***************************************************************************)
\* "https://chat.staging.signal.org"
STAGING_SERVICE_URL ==
  <<"h", "t", "t", "p", "s", ":", "/", "/", "c", "h", "a", "t", ".", "s", "t", "a", "g", "i", "n", "g", ".", "s",
    "i", "g", "n", "a", "l", ".", "o", "r", "g">>

\* "https://storage-staging.signal.org"
STAGING_STORAGE_URL ==
  <<"h", "t", "t", "p", "s", ":", "/", "/", "s", "t", "o", "r", "a", "g", "e", "-", "s", "t", "a", "g", "i", "n",
    "g", ".", "s", "i", "g", "n", "a", "l", ".", "o", "r", "g">>

\* "https://cdn-staging.signal.org"
STAGING_CDN0_URL ==
  <<"h", "t", "t", "p", "s", ":", "/", "/", "c", "d", "n", "-", "s", "t", "a", "g", "i", "n", "g", ".", "s", "i",
    "g", "n", "a", "l", ".", "o", "r", "g">>

\* "https://cdn2-staging.signal.org"
STAGING_CDN2_URL ==
  <<"h", "t", "t", "p", "s", ":", "/", "/", "c", "d", "n", "2", "-", "s", "t", "a", "g", "i", "n", "g", ".", "s",
    "i", "g", "n", "a", "l", ".", "o", "r", "g">>

\* "https://api-staging.directory.signal.org"
STAGING_CONTACT_DISCOVERY_URL ==
  <<"h", "t", "t", "p", "s", ":", "/", "/", "a", "p", "i", "-", "s", "t", "a", "g", "i", "n", "g", ".", "d", "i",
    "r", "e", "c", "t", "o", "r", "y", ".", "s", "i", "g", "n", "a", "l", ".", "o", "r", "g">>

\* "https://chat.signal.org"
PRODUCTION_SERVICE_URL ==
  <<"h", "t", "t", "p", "s", ":", "/", "/", "c", "h", "a", "t", ".", "s", "i", "g", "n", "a", "l", ".", "o", "r",
    "g">>

\* the production storage URL copied from the staging arm
PRODUCTION_STORAGE_URL_copied == STAGING_STORAGE_URL

\* "https://storage.signal.org"
PRODUCTION_STORAGE_URL ==
  <<"h", "t", "t", "p", "s", ":", "/", "/", "s", "t", "o", "r", "a", "g", "e", ".", "s", "i", "g", "n", "a", "l",
    ".", "o", "r", "g">>

\* "https://cdn.signal.org"
PRODUCTION_CDN0_URL ==
  <<"h", "t", "t", "p", "s", ":", "/", "/", "c", "d", "n", ".", "s", "i", "g", "n", "a", "l", ".", "o", "r", "g">>

\* "https://cdn2.signal.org"
PRODUCTION_CDN2_URL ==
  <<"h", "t", "t", "p", "s", ":", "/", "/", "c", "d", "n", "2", ".", "s", "i", "g", "n", "a", "l", ".", "o", "r",
    "g">>

\* "https://api.directory.signal.org"
PRODUCTION_CONTACT_DISCOVERY_URL ==
  <<"h", "t", "t", "p", "s", ":", "/", "/", "a", "p", "i", ".", "d", "i", "r", "e", "c", "t", "o", "r", "y", ".",
    "s", "i", "g", "n", "a", "l", ".", "o", "r", "g">>

\* "BbqY1DzohE4NUZoVF+L18oUPrK3kILllLEJh2UnPSsEx"
STAGING_TRUST_ROOT ==
  <<"B", "b", "q", "Y", "1", "D", "z", "o", "h", "E", "4", "N", "U", "Z", "o", "V", "F", "+", "L", "1", "8", "o",
    "U", "P", "r", "K", "3", "k", "I", "L", "l", "l", "L", "E", "J", "h", "2", "U", "n", "P", "S", "s", "E", "x">>

\* "BXu6QIKVz5MA8gstzfOgRQGqyLqOwNKHL6INkv3IHWMF"
PRODUCTION_TRUST_ROOT ==
  <<"B", "X", "u", "6", "Q", "I", "K", "V", "z", "5", "M", "A", "8", "g", "s", "t", "z", "f", "O", "g", "R", "Q",
    "G", "q", "y", "L", "q", "O", "w", "N", "K", "H", "L", "6", "I", "N", "k", "v", "3", "I", "H", "W", "M", "F">>

STAGING_ZKGROUP_PARAMS ==
  <<"A", "B", "S", "Y", "2", "1", "V", "c", "k", "Q", "c", "b", "S", "X", "V", "N", "C", "G", "R", "Y", "J", "c",
    "f", "W", "H", "i", "A", "M", "Z", "m", "p", "T", "t", "T", "E", "L", "c", "D", "m", "x", "g", "d", "F", "b",
    "t", "p", "/", "b", "W", "s", "S", "x", "Z", "d", "M", "K", "z", "f", "C", "p", "8", "r", "v", "I", "s", "8",
    "o", "c", "C", "U", "3", "B", "3", "7", "f", "T", "3", "r", "4", "M", "i", "5", "q", "A", "e", "m", "e", "G",
    "e", "R", "2", "X", "+", "/", "Y", "m", "O", "G", "R", "5", "o", "f", "u", "i", "7", "t", "D", "5", "m", "D",
    "Q", "f", "s", "t", "A", "I", "9", "i", "+", "4", "W", "p", "M", "t", "I", "e", "8", "K", "C", "3", "w", "U",
    "5", "w", "3", "I", "n", "q", "3", "u", "N", "W", "V", "m", "o", "G", "t", "p", "K", "n", "d", "s", "N", "f",
    "w", "J", "r", "C", "g", "0", "H", "d", "9", "z", "m", "O", "b", "h", "y", "p", "U", "n", "S", "k", "f", "Y",
    "n", "2", "o", "o", "M", "O", "O", "n", "B", "p", "f", "d", "a", "n", "R", "t", "r", "v", "e", "t", "Z", "U",
    "a", "y", "D", "M", "S", "C", "5", "i", "S", "R", "c", "X", "K", "p", "d", "l", "s", "=">>

PRODUCTION_ZKGROUP_PARAMS ==
  <<"A", "M", "h", "f", "5", "y", "w", "V", "w", "I", "T", "Z", "M", "s", "f", "f", "/", "e", "C", "y", "u", "d",
    "Z", "x", "9", "J", "D", "m", "k", "k", "k", "b", "V", "6", "P", "I", "n", "z", "G", "4", "p", "8", "x", "3",
    "V", "q", "V", "J", "S", "F", "i", "M", "v", "n", "v", "l", "E", "K", "W", "u", "R", "o", "b", "/", "1", "e",
    "a", "I", "e", "t", "R", "3", "1", "I", "Y", "e", "A", "b", "m", "0", "N", "d", "O", "u", "H", "H", "8", "Q",
    "i", "+", "R", "e", "x", "i", "1", "w", "L", "l", "p", "z", "I", "o", "1", "g", "s", "t", "H", "W", "B", "f",
    "Z", "z", "y", "1", "+", "q", "H", "R", "V", "5", "A", "4", "T", "q", "P", "p", "1", "5", "Y", "z", "B", "P",
    "m", "0", "W", "S", "g", "g", "W", "6", "P", "b", "S", "n", "+", "F", "4", "l", "f", "5", "7", "V", "C", "n",
    "H", "F", "7", "p", "8", "S", "v", "z", "A", "A", "2", "Z", "Z", "J", "P", "Y", "J", "U", "R", "t", "8", "X",
    "7", "b", "b", "g", "+", "H", "3", "i", "+", "P", "E", "j", "H", "9", "D", "X", "I", "t", "N", "E", "q", "s",
    "2", "s", "N", "c", "u", "g", "3", "7", "x", "Z", "Q", "D", "L", "m", "7", "X", "0", "=">>

SIGNAL_ROOT_CA ==
  "-----BEGIN CERTIFICATE-----\n"
  \o "MIIF2zCCA8OgAwIBAgIUAMHz4g60cIDBpPr1gyZ/JDaaPpcwDQYJKoZIhvcNAQEL\n"
  \o "BQAwdTELMAkGA1UEBhMCVVMxEzARBgNVBAgTCkNhbGlmb3JuaWExFjAUBgNVBAcT\n"
  \o "DU1vdW50YWluIFZpZXcxHjAcBgNVBAoTFVNpZ25hbCBNZXNzZW5nZXIsIExMQzEZ\n"
  \o "MBcGA1UEAxMQU2lnbmFsIE1lc3NlbmdlcjAeFw0yMjAxMjYwMDQ1NTFaFw0zMjAx\n"
  \o "MjQwMDQ1NTBaMHUxCzAJBgNVBAYTAlVTMRMwEQYDVQQIEwpDYWxpZm9ybmlhMRYw\n"
  \o "FAYDVQQHEw1Nb3VudGFpbiBWaWV3MR4wHAYDVQQKExVTaWduYWwgTWVzc2VuZ2Vy\n"
  \o "LCBMTEMxGTAXBgNVBAMTEFNpZ25hbCBNZXNzZW5nZXIwggIiMA0GCSqGSIb3DQEB\n"
  \o "AQUAA4ICDwAwggIKAoICAQDEecifxMHHlDhxbERVdErOhGsLO08PUdNkATjZ1kT5\n"
  \o "1uPf5JPiRbus9F4J/GgBQ4ANSAjIDZuFY0WOvG/i0qvxthpW70ocp8IjkiWTNiA8\n"
  \o "1zQNQdCiWbGDU4B1sLi2o4JgJMweSkQFiyDynqWgHpw+KmvytCzRWnvrrptIfE4G\n"
  \o "PxNOsAtXFbVH++8JO42IaKRVlbfpe/lUHbjiYmIpQroZPGPY4Oql8KM3o39ObPnT\n"
  \o "o1WoM4moyOOZpU3lV1awftvWBx1sbTBL02sQWfHRxgNVF+Pj0fdDMMFdFJobArrL\n"
  \o "VfK2Ua+dYN4pV5XIxzVarSRW73CXqQ+2qloPW/ynpa3gRtYeGWV4jl7eD0PmeHpK\n"
  \o "OY78idP4H1jfAv0TAVeKpuB5ZFZ2szcySxrQa8d7FIf0kNJe9gIRjbQ+XrvnN+ZZ\n"
  \o "vj6d+8uBJq8LfQaFhlVfI0/aIdggScapR7w8oLpvdflUWqcTLeXVNLVrg15cEDwd\n"
  \o "lV8PVscT/KT0bfNzKI80qBq8LyRmauAqP0CDjayYGb2UAabnhefgmRY6aBE5mXxd\n"
  \o "byAEzzCS3vDxjeTD8v8nbDq+SD6lJi0i7jgwEfNDhe9XK50baK15Udc8Cr/ZlhGM\n"
  \o "jNmWqBd0jIpaZm1rzWA0k4VwXtDwpBXSz8oBFshiXs3FD6jHY2IhOR3ppbyd4qRU\n"
  \o "pwIDAQABo2MwYTAOBgNVHQ8BAf8EBAMCAQYwDwYDVR0TAQH/BAUwAwEB/zAdBgNV\n"
  \o "HQ4EFgQUtfNLxuXWS9DlgGuMUMNnW7yx83EwHwYDVR0jBBgwFoAUtfNLxuXWS9Dl\n"
  \o "gGuMUMNnW7yx83EwDQYJKoZIhvcNAQELBQADggIBABUeiryS0qjykBN75aoHO9bV\n"
  \o "PrrX+DSJIB9V2YzkFVyh/io65QJMG8naWVGOSpVRwUwhZVKh3JVp/miPgzTGAo7z\n"
  \o "hrDIoXc+ih7orAMb19qol/2Ha8OZLa75LojJNRbZoCR5C+gM8C+spMLjFf9k3JVx\n"
  \o "dajhtRUcR0zYhwsBS7qZ5Me0d6gRXD0ZiSbadMMxSw6KfKk3ePmPb9gX+MRTS63c\n"
  \o "8mLzVYB/3fe/bkpq4RUwzUHvoZf+SUD7NzSQRQQMfvAHlxk11TVNxScYPtxXDyiy\n"
  \o "3Cssl9gWrrWqQ/omuHipoH62J7h8KAYbr6oEIq+Czuenc3eCIBGBBfvCpuFOgckA\n"
  \o "XXE4MlBasEU0MO66GrTCgMt9bAmSw3TrRP12+ZUFxYNtqWluRU8JWQ4FCCPcz9pg\n"
  \o "MRBOgn4lTxDZG+I47OKNuSRjFEP94cdgxd3H/5BK7WHUz1tAGQ4BgepSXgmjzifF\n"
  \o "T5FVTDTl3ZnWUVBXiHYtbOBgLiSIkbqGMCLtrBtFIeQ7RRTb3L+IE9R0UB0cJB3A\n"
  \o "Xbf1lVkOcmrdu2h8A32aCwtr5S1fBF1unlG7imPmqJfpOMWa8yIF/KWVm29JAPq8\n"
  \o "Lrsybb0z5gg8w7ZblEuB9zOW9M3l60DXuJO6l7g+deV6P96rv2unHS8UlvWiVWDy\n"
  \o "9qfgAJizyy3kqM4lOwBH\n"
  \o "-----END CERTIFICATE-----"

(***************************************************************************)
(* SignalServers and its text form.                                        *)
(***************************************************************************)
SignalServers == {"Staging", "Production"}

\* texts handed to from_str
Texts ==
  {"staging", "production", "STAGING", "PRODUCTION", "Staging", "Production",
   "dev", "", " staging", "production\n", "stagingproduction"}

\* from_str that ignores the case of the first letter
from_str_anyCase(s) ==
  CASE s \in {"staging", "Staging"} -> Ok("Staging")
    [] s \in {"production", "Production"} -> Ok("Production")
    [] OTHER ->
         Err([kind |-> "InvalidInput",
              msg |-> "invalid signal servers, can be either: staging or production"])

\* impl FromStr for SignalServers
from_str(s) ==
  CASE s = "staging" -> Ok("Staging")
    [] s = "production" -> Ok("Production")
    [] OTHER ->
         Err([kind |-> "InvalidInput",
              msg |-> "invalid signal servers, can be either: staging or production"])

\* to_string with the Debug names of the variants
to_string_debug(self) ==
  CASE self = "Staging" -> "Staging"
    [] self = "Production" -> "Production"

\* impl ToString for SignalServers
to_string(self) ==
  CASE self = "Staging" -> "staging"
    [] self = "Production" -> "production"

(***************************************************************************)
(* impl From<&SignalServers> for ServiceConfiguration.  Every parse,       *)
(* decode and deserialize of a literal is unwrapped: an Err is a panic.    *)
(* cdn_urls is the HashMap built by the two inserts.                       *)
(***************************************************************************)
From ==
  [val \in SignalServers |->
     LET lit ==
           CASE val = "Staging" ->
                  [service_url |-> UrlParse(STAGING_SERVICE_URL),
                   storage_url |-> UrlParse(STAGING_STORAGE_URL),
                   cdn0 |-> UrlParse(STAGING_CDN0_URL),
                   cdn2 |-> UrlParse(STAGING_CDN2_URL),
                   contact_discovery_url |-> UrlParse(STAGING_CONTACT_DISCOVERY_URL),
                   certificate_authority |-> SIGNAL_ROOT_CA,
                   unidentified_sender_trust_root |-> STAGING_TRUST_ROOT,
                   zkgroup |-> Base64Decode(STAGING_ZKGROUP_PARAMS)]
             [] val = "Production" ->
                  [service_url |-> UrlParse(PRODUCTION_SERVICE_URL),
                   storage_url |-> UrlParse(PRODUCTION_STORAGE_URL),
                   cdn0 |-> UrlParse(PRODUCTION_CDN0_URL),
                   cdn2 |-> UrlParse(PRODUCTION_CDN2_URL),
                   contact_discovery_url |-> UrlParse(PRODUCTION_CONTACT_DISCOVERY_URL),
                   certificate_authority |-> SIGNAL_ROOT_CA,
                   unidentified_sender_trust_root |-> PRODUCTION_TRUST_ROOT,
                   zkgroup |-> Base64Decode(PRODUCTION_ZKGROUP_PARAMS)]
         params == BincodeDeserialize(lit.zkgroup.val)
     IN  IF ~IsOk(lit.service_url) \/ ~IsOk(lit.storage_url)
            \/ ~IsOk(lit.cdn0) \/ ~IsOk(lit.cdn2)
            \/ ~IsOk(lit.contact_discovery_url)
            \/ ~IsOk(lit.zkgroup)
         THEN Panic("called Result::unwrap() on an Err value")
         ELSE IF ~IsOk(params)
         THEN Panic("called Result::unwrap() on an Err value")
         ELSE Return(
                [service_url |-> lit.service_url.val,
                 storage_url |-> lit.storage_url.val,
                 cdn_urls |-> (0 :> lit.cdn0.val) @@ (2 :> lit.cdn2.val),
                 contact_discovery_url |-> lit.contact_discovery_url.val,
                 certificate_authority |-> lit.certificate_authority,
                 unidentified_sender_trust_root |-> lit.unidentified_sender_trust_root,
                 zkgroup_server_public_params |-> params.val])]

(***************************************************************************)
(* Endpoint and ServiceConfiguration::base_url.  Indexing a HashMap with a *)
(* key it does not hold panics.                                            *)
(***************************************************************************)
Service == [kind |-> "Service"]

Storage == [kind |-> "Storage"]

ContactDiscovery == [kind |-> "ContactDiscovery"]

Cdn(n) == [kind |-> "Cdn", n |-> n]

Endpoint == {Service, Storage, ContactDiscovery} \cup {Cdn(n) : n \in 0..MaxCdnId}

\* base_url with the Storage arm returning the service URL
base_url_storageSwapped(self, endpoint) ==
  CASE endpoint.kind = "Service" -> Return(self.service_url)
    [] endpoint.kind = "Storage" -> Return(self.service_url)
    [] endpoint.kind = "Cdn" ->
         IF endpoint.n \in DOMAIN self.cdn_urls
         THEN Return(self.cdn_urls[endpoint.n])
         ELSE Panic("key not found in HashMap")
    [] endpoint.kind = "ContactDiscovery" -> Return(self.contact_discovery_url)

base_url(self, endpoint) ==
  CASE endpoint.kind = "Service" -> Return(self.service_url)
    [] endpoint.kind = "Storage" -> Return(self.storage_url)
    [] endpoint.kind = "Cdn" ->
         IF endpoint.n \in DOMAIN self.cdn_urls
         THEN Return(self.cdn_urls[endpoint.n])
         ELSE Panic("key not found in HashMap")
    [] endpoint.kind = "ContactDiscovery" -> Return(self.contact_discovery_url)

(***************************************************************************)
(* ServiceConfiguration::credentials_validator.  A decode error is mapped  *)
(* to SealedSessionError::InvalidCertificate and leaves through `?`; an    *)
(* error of PublicKey::deserialize leaves through `?` as it is.  Both are  *)
(* converted into the ServiceError that wraps them.  steps lists the calls *)
(* made, in order.                                                         *)
(***************************************************************************)
\* credentials_validator without the map_err: a decode error is passed on
\* like a key error
credentials_validator_noMapErr(self) ==
  LET decoded == Base64Decode(self.unidentified_sender_trust_root)
      key == PublicKeyDeserialize(decoded.val)
  IN  IF ~IsOk(decoded)
      THEN [result |-> Err([from |-> "SignalProtocolError", error |-> decoded.err]),
            steps |-> <<"base64::decode">>]
      ELSE IF ~IsOk(key)
      THEN [result |-> Err([from |-> "SignalProtocolError", error |-> key.err]),
            steps |-> <<"base64::decode", "PublicKey::deserialize">>]
      ELSE [result |-> Ok([trust_root |-> key.val]),
            steps |-> <<"base64::decode", "PublicKey::deserialize",
                        "CertificateValidator::new">>]

credentials_validator(self) ==
  LET decoded == Base64Decode(self.unidentified_sender_trust_root)
      key == PublicKeyDeserialize(decoded.val)
  IN  IF ~IsOk(decoded)
      THEN [result |-> Err([from |-> "SealedSessionError",
                            error |-> "InvalidCertificate"]),
            steps |-> <<"base64::decode">>]
      ELSE IF ~IsOk(key)
      THEN [result |-> Err([from |-> "SignalProtocolError", error |-> key.err]),
            steps |-> <<"base64::decode", "PublicKey::deserialize">>]
      ELSE [result |-> Ok([trust_root |-> key.val]),
            steps |-> <<"base64::decode", "PublicKey::deserialize",
                        "CertificateValidator::new">>]

\* unidentified_sender_trust_root is a public field: the values a caller
\* may have left in it before asking for the validator
TrustRootInputs(root) ==
  {SubSeq(root, 1, Len(root) - k) : k \in 0..MaxTruncate}
    \cup {[root EXCEPT ![1] = "A"], [root EXCEPT ![7] = "!"],
          root \o <<"=">>, root \o <<"A", "A", "A", "=">>, <<>>}

(***************************************************************************)
(* The state machine: one action per operation.                            *)
(***************************************************************************)
NoCall == [op |-> "none", arg |-> <<>>, out |-> Return(<<>>)]

Init ==
  /\ ret = NoCall
  /\ produced = [v \in SignalServers |-> {}]
  /\ calls = [v \in SignalServers |-> 0]

\* the calling thread has not panicked
Alive == ret.out.tag # "Panic"

\* the snapshots the caller holds
Snapshots == UNION {produced[v] : v \in SignalServers}

Login ==
  /\ Alive
  /\ \E self \in ServiceCredentials :
       ret' = [op |-> "login", arg |-> [self |-> self], out |-> Return(login(self))]
  /\ UNCHANGED <<produced, calls>>

E164 ==
  /\ Alive
  /\ \E self \in ServiceCredentials :
       ret' = [op |-> "e164", arg |-> [self |-> self], out |-> Return(e164(self))]
  /\ UNCHANGED <<produced, calls>>

Authorization ==
  /\ Alive
  /\ \E self \in ServiceCredentials :
       ret' = [op |-> "authorization", arg |-> [self |-> self],
               out |-> Return(authorization(self))]
  /\ UNCHANGED <<produced, calls>>

\* the text a preceding to_string has returned, if any
FormattedText == IF ret.op = "to_string" THEN {ret.out.val} ELSE {}

FromStr ==
  /\ Alive
  /\ \E s \in Texts \cup FormattedText :
       ret' = [op |-> "from_str", arg |-> [s |-> s], out |-> Return(from_str(s))]
  /\ UNCHANGED <<produced, calls>>

ToStringCall ==
  /\ Alive
  /\ \E self \in SignalServers :
       ret' = [op |-> "to_string", arg |-> [self |-> self],
               out |-> Return(to_string(self))]
  /\ UNCHANGED <<produced, calls>>

\* n + 1, not counting beyond MaxCalls
Count(n) == IF n < MaxCalls THEN n + 1 ELSE n

\* FromCall with a one-entry cache that is not keyed by the deployment: a
\* call that directly follows another From call returns that call's snapshot
FromCall_staleCache(val, by) ==
  LET out == IF ret.op = "from" THEN ret.out ELSE From[val]
  IN  /\ ret' = [op |-> "from", arg |-> [val |-> val, by |-> by], out |-> out]
      /\ produced' = IF out.tag = "Return"
                     THEN [produced EXCEPT ![val] = @ \cup {out.val}]
                     ELSE produced
      /\ calls' = [calls EXCEPT ![val] = Count(@)]

\* the body shared by the two From impls
FromCall(val, by) ==
  /\ ret' = [op |-> "from", arg |-> [val |-> val, by |-> by], out |-> From[val]]
  /\ produced' = IF From[val].tag = "Return"
                 THEN [produced EXCEPT ![val] = @ \cup {From[val].val}]
                 ELSE produced
  /\ calls' = [calls EXCEPT ![val] = Count(@)]

\* impl From<&SignalServers> for ServiceConfiguration
FromRef ==
  /\ Alive
  /\ \E val \in SignalServers : FromCall(val, "ref")

\* impl From<SignalServers> for ServiceConfiguration
FromOwned ==
  /\ Alive
  /\ \E val \in SignalServers : FromCall(val, "value")

BaseUrl ==
  /\ Alive
  /\ \E self \in Snapshots, endpoint \in Endpoint :
       ret' = [op |-> "base_url", arg |-> [self |-> self, endpoint |-> endpoint],
               out |-> base_url(self, endpoint)]
  /\ UNCHANGED <<produced, calls>>

CredentialsValidator ==
  /\ Alive
  /\ \E snapshot \in Snapshots :
       \E root \in TrustRootInputs(snapshot.unidentified_sender_trust_root) :
         LET self == [snapshot EXCEPT !.unidentified_sender_trust_root = root]
         IN  ret' = [op |-> "credentials_validator", arg |-> [self |-> self],
                     out |-> Return(credentials_validator(self))]
  /\ UNCHANGED <<produced, calls>>

Next ==
  \/ Login
  \/ E164
  \/ Authorization
  \/ FromStr
  \/ ToStringCall
  \/ FromRef
  \/ FromOwned
  \/ BaseUrl
  \/ CredentialsValidator

Spec == Init /\ [][Next]_vars

(***************************************************************************)
(* Properties.                                                             *)
(***************************************************************************)
Called(op) == ret.op = op

\* C1: login() returns the base identifier (the uuid as text when a uuid is
\* present, otherwise the E.164 phone number) unchanged when device_id is
\* absent or DEFAULT_DEVICE_ID, and "{base}.{device_id}" for every other
\* device id; with a uuid present the phone number is not the base.
LoginShape ==
  Called("login") =>
    LET self == ret.arg.self
        base == IF self.uuid # None THEN UuidToString(self.uuid.val)
                ELSE e164(self)
        plain == self.device_id = None \/ self.device_id.val = DEFAULT_DEVICE_ID
    IN  /\ ret.out.tag = "Return"
        /\ plain => ret.out.val = base
        /\ ~plain => ret.out.val = base \o "." \o DisplayUInt(self.device_id.val)
        /\ self.uuid # None =>
             /\ ret.out.val # e164(self)
             /\ plain \/ ret.out.val # e164(self) \o "." \o DisplayUInt(self.device_id.val)

LoginShapeWitness ==
  /\ Called("login")
  /\ ret.arg.self.uuid # None
  /\ ret.arg.self.device_id # None
  /\ ret.arg.self.device_id.val > DEFAULT_DEVICE_ID
  /\ ret.out.val = UuidToString(ret.arg.self.uuid.val) \o "."
                     \o DisplayUInt(ret.arg.self.device_id.val)

\* C2: base_url with Endpoint::Cdn(n) for an n that is not a key of cdn_urls
\* ends in an UnknownEndpoint error value returned to the caller, not in a
\* panic.
UnknownCdnIsRecoverable ==
  (Called("base_url") /\ ret.arg.endpoint.kind = "Cdn"
     /\ ret.arg.endpoint.n \notin DOMAIN ret.arg.self.cdn_urls)
    => (ret.out.tag = "Return" /\ ret.out.val = Err("UnknownEndpoint"))

\* C3: authorization() is None exactly when password is None; with a
\* password it is the pair of login() of the same credentials and that
\* password.
AuthorizationShape ==
  Called("authorization") =>
    LET self == ret.arg.self
    IN  /\ ret.out.tag = "Return"
        /\ (ret.out.val = None) <=> (self.password = None)
        /\ self.password # None =>
             /\ ret.out.val.tag = "Some"
             /\ ret.out.val.val.username = login(self)
             /\ ret.out.val.val.password = self.password.val

AuthorizationShapeWitness ==
  /\ Called("authorization")
  /\ ret.arg.self.password # None
  /\ ret.arg.self.uuid # None
  /\ ret.out.val.tag = "Some"
  /\ ret.out.val.val.username # e164(ret.arg.self)

\* C4: from_str succeeds only for exactly "staging" (Staging) and
\* "production" (Production); every other text fails with an InvalidInput
\* error and yields no variant.
ParseExact ==
  Called("from_str") =>
    LET s == ret.arg.s
        out == ret.out.val
    IN  /\ ret.out.tag = "Return"
        /\ s = "staging" => out = Ok("Staging")
        /\ s = "production" => out = Ok("Production")
        /\ s \notin {"staging", "production"} =>
             out.tag = "Err" /\ out.err.kind = "InvalidInput"

ParseExactWitness ==
  /\ Called("from_str")
  /\ ret.arg.s \in {"STAGING", "Staging", "dev"}
  /\ ret.out.val.tag = "Err"

\* C5: to_string is inverted by from_str: parsing the text to_string
\* returned for v succeeds with v, and the other variant has another text.
FormatParseRoundTrip ==
  Called("to_string") =>
    /\ ret.out.tag = "Return"
    /\ from_str(ret.out.val) = Ok(ret.arg.self)
    /\ \A w \in SignalServers \ {ret.arg.self} : to_string(w) # ret.out.val

FormatParseRoundTripWitness ==
  /\ Called("from_str")
  /\ \E v \in SignalServers : ret.arg.s = to_string(v) /\ ret.out.val = Ok(v)

\* C6: credentials_validator decodes, then parses the key, and returns a
\* validator only when both succeed: a decode error gives InvalidCertificate
\* without the key being parsed, a key error gives the key-deserialization
\* error, and the built-in trust roots give a validator.
ValidatorSteps ==
  Called("credentials_validator") =>
    LET root == ret.arg.self.unidentified_sender_trust_root
        decoded == Base64Decode(root)
        key == PublicKeyDeserialize(decoded.val)
        out == ret.out.val
    IN  /\ ret.out.tag = "Return"
        /\ ~IsOk(decoded) =>
             /\ out.result = Err([from |-> "SealedSessionError",
                                  error |-> "InvalidCertificate"])
             /\ out.steps = <<"base64::decode">>
        /\ (IsOk(decoded) /\ ~IsOk(key)) =>
             /\ out.result.tag = "Err"
             /\ out.result.err.from = "SignalProtocolError"
             /\ out.steps = <<"base64::decode", "PublicKey::deserialize">>
        /\ (IsOk(decoded) /\ IsOk(key)) <=> out.result.tag = "Ok"
        /\ root \in {STAGING_TRUST_ROOT, PRODUCTION_TRUST_ROOT} =>
             out.result.tag = "Ok"

ValidatorStepsWitness ==
  /\ Called("credentials_validator")
  /\ ret.out.val.result.tag = "Err"
  /\ ret.out.val.result.err.error = "InvalidCertificate"
  /\ \E v \in SignalServers :
       \E snapshot \in produced[v] :
         [ret.arg.self EXCEPT !.unidentified_sender_trust_root =
            snapshot.unidentified_sender_trust_root] = snapshot

\* C7: on the snapshot of either deployment base_url returns for Service,
\* Storage, ContactDiscovery, Cdn(0) and Cdn(2): the service_url,
\* storage_url, contact_discovery_url field and the URL stored under the id
\* in cdn_urls; the Service URLs of the two deployments differ.
ResolveBuiltIn ==
  (Called("base_url")
     /\ ret.arg.endpoint \in {Service, Storage, ContactDiscovery, Cdn(0), Cdn(2)})
    => LET self == ret.arg.self
           endpoint == ret.arg.endpoint
       IN  /\ ret.out.tag = "Return"
           /\ endpoint = Service => ret.out.val = self.service_url
           /\ endpoint = Storage => ret.out.val = self.storage_url
           /\ endpoint = ContactDiscovery => ret.out.val = self.contact_discovery_url
           /\ endpoint.kind = "Cdn" => ret.out.val = self.cdn_urls[endpoint.n]
           /\ endpoint = Service =>
                \A v, w \in SignalServers :
                  (v # w /\ self \in produced[v]) =>
                    \A other \in produced[w] :
                      base_url(other, Service) # ret.out

ResolveBuiltInWitness ==
  /\ Called("base_url")
  /\ ret.arg.endpoint = Service
  /\ ret.out.tag = "Return"
  /\ produced["Staging"] # {}
  /\ ret.arg.self \in produced["Production"]

VariantsDiffer ==
  \A s \in produced["Staging"], p \in produced["Production"] :
    /\ s.certificate_authority = p.certificate_authority
    /\ s.service_url # p.service_url
    /\ s.storage_url # p.storage_url
    /\ s.contact_discovery_url # p.contact_discovery_url
    /\ DOMAIN s.cdn_urls = {0, 2}
    /\ DOMAIN p.cdn_urls = {0, 2}
    /\ \A n \in {0, 2} : s.cdn_urls[n] # p.cdn_urls[n]
    /\ s.unidentified_sender_trust_root # p.unidentified_sender_trust_root
    /\ s.zkgroup_server_public_params # p.zkgroup_server_public_params

VariantsDifferWitness ==
  /\ produced["Staging"] # {}
  /\ produced["Production"] # {}

\* C10: the login string (and the username of authorization) of credentials
\* with a uuid is the same for all credentials with that uuid and device_id,
\* whatever their phonenumber, password and signaling_key; and no
\* credentials' login changes with password or signaling_key alone.
LoginIndependence ==
  /\ Called("login") =>
       \A other \in ServiceCredentials :
         /\ (ret.arg.self.uuid # None /\ other.uuid = ret.arg.self.uuid
               /\ other.device_id = ret.arg.self.device_id)
              => login(other) = ret.out.val
         /\ (other.uuid = ret.arg.self.uuid
               /\ other.phonenumber = ret.arg.self.phonenumber
               /\ other.device_id = ret.arg.self.device_id)
              => login(other) = ret.out.val
  /\ (Called("authorization") /\ ret.out.val # None) =>
       \A other \in ServiceCredentials :
         (ret.arg.self.uuid # None /\ other.uuid = ret.arg.self.uuid
            /\ other.device_id = ret.arg.self.device_id)
           => login(other) = ret.out.val.val.username

LoginIndependenceWitness ==
  /\ Called("login")
  /\ ret.arg.self.uuid # None
  /\ ret.arg.self.password # None
  /\ \E other \in ServiceCredentials :
       /\ other.uuid = ret.arg.self.uuid
       /\ other.device_id = ret.arg.self.device_id
       /\ other.phonenumber # ret.arg.self.phonenumber
       /\ other.password # ret.arg.self.password
       /\ login(other) = ret.out.val

====
